---- MODULE Spec2Model ----
(***************************************************************************)
(* The flow-analysis builder of lark-type-check                            *)
(* (components/lark-type-check/src/full_inference/analysis/builder.rs).    *)
(*                                                                         *)
(* AnalysisBuilder walks one function body and appends to the Analysis:    *)
(* control-flow nodes and edges, interned paths with their owner relation, *)
(* and the Access / Overwritten / Traverse / Used fact relations.          *)
(*                                                                         *)
(* The recursion of IntoNode::to_cfg_node is run as a stack machine: the   *)
(* variable `stack` holds the calls and continuations still to run and     *)
(* `ret` holds the node handed from one call to the next (the start_node   *)
(* argument, then the returned node).  The other builder methods are       *)
(* operators over the builder record.  Identities (Node, Path) are the     *)
(* 0-based indices of the Rust index vectors.                              *)
(***************************************************************************)
EXTENDS Integers, Sequences, FiniteSets, TLC

VARIABLES fn_body, builder, inferred, stack, ret, returned

vars == <<fn_body, builder, inferred, stack, ret, returned>>

(***************************************************************************)
(* Bounds of the explored inputs.                                          *)
(***************************************************************************)
\* largest number of expressions in a body drawn from the full grammar
MaxSize == 3
\* largest number of expressions in a body drawn from the conditional grammar
MaxCondSize == 10
\* largest number of permission layers in the type of a type-use body
MaxTySize == 4
\* deepest field projection of the places in a place-sequence body
MaxProj == 2

(***************************************************************************)
(* Types: ty::Ty { repr, perm, base }.  The base is what the unification   *)
(* table knows of it: `resolved` says whether shallow_resolve_data answers *)
(* Ok, `generics` is the BaseData's generic arguments (for an unresolved   *)
(* base: the arguments it will have once inferred).                        *)
(***************************************************************************)
Ty(perm, resolved, generics) ==
    [perm |-> perm, base |-> [resolved |-> resolved, generics |-> generics]]

RECURSIVE Tys(_, _), TyLists(_, _)
\* the types with exactly n permission layers, permissions first..first+n-1
Tys(n, first) ==
    IF n < 1 THEN {}
    ELSE { Ty(first, r, g) : r \in BOOLEAN, g \in TyLists(n - 1, first + 1) }

\* the lists of types with n permission layers in all
TyLists(n, first) ==
    IF n = 0 THEN { <<>> }
    ELSE UNION { { <<t>> \o rest : t \in Tys(k, first),
                                  rest \in TyLists(n - k, first + k) }
                 : k \in 1..n }

\* the type of an expression whose type is of no interest
SimpleTy == Ty(0, TRUE, <<>>)

(***************************************************************************)
(* Places: hir::PlaceData.                                                 *)
(***************************************************************************)
Variable(v) == [kind |-> "Variable", v |-> v]
Entity(e) == [kind |-> "Entity", e |-> e]
Temporary(expression) == [kind |-> "Temporary", expression |-> expression]
Field(owner, name) == [kind |-> "Field", owner |-> owner, name |-> name]

(***************************************************************************)
(* Expressions: hir::ExpressionData, each with its identity (`id`, the     *)
(* hir::Expression index), its type in the type-check results (`ty`) and,  *)
(* for a place read, its entry of results.access_permissions (`perm`).     *)
(* An Option is a sequence of length 0 or 1, a hir::List a sequence.       *)
(***************************************************************************)
Let(id, initializer, body) ==
    [kind |-> "Let", id |-> id, ty |-> SimpleTy, variable |-> "t",
     initializer |-> initializer, body |-> body]
Place(id, place) ==
    [kind |-> "Place", id |-> id, ty |-> SimpleTy, perm |-> 100 + id, place |-> place]
Assignment(id, place, value) ==
    [kind |-> "Assignment", id |-> id, ty |-> SimpleTy, place |-> place, value |-> value]
MethodCall(id, arguments) ==
    [kind |-> "MethodCall", id |-> id, ty |-> SimpleTy, arguments |-> arguments]
Call(id, function, arguments) ==
    [kind |-> "Call", id |-> id, ty |-> SimpleTy, function |-> function,
     arguments |-> arguments]
If(id, condition, if_true, if_false) ==
    [kind |-> "If", id |-> id, ty |-> SimpleTy, condition |-> condition,
     if_true |-> if_true, if_false |-> if_false]
Binary(id, left, right) ==
    [kind |-> "Binary", id |-> id, ty |-> SimpleTy, left |-> left, right |-> right]
Unary(id, value) ==
    [kind |-> "Unary", id |-> id, ty |-> SimpleTy, value |-> value]
Literal(id, ty) == [kind |-> "Literal", id |-> id, ty |-> ty]
Unit(id) == [kind |-> "Unit", id |-> id, ty |-> SimpleTy]
Error(id) == [kind |-> "Error", id |-> id, ty |-> SimpleTy]
Aggregate(id, fields) ==
    [kind |-> "Aggregate", id |-> id, ty |-> SimpleTy, fields |-> fields]
Sequence(id, first, second) ==
    [kind |-> "Sequence", id |-> id, ty |-> SimpleTy, first |-> first, second |-> second]
\* hir::IdentifiedExpression: a named field initializer of an aggregate
IdentifiedExpression(expression) == [expression |-> expression]

(***************************************************************************)
(* The function bodies explored.  A grammar g names the expression kinds   *)
(* (g.kinds), the types of its literals (g.lits), the places that hold no  *)
(* expression (g.places) and whether places over temporaries occur         *)
(* (g.temps).  Identities are given in pre-order, the root first.  The     *)
(* bodies are tabulated by size: tab.E[n][first] is the set of expressions *)
(* made of exactly n expressions with identities first..first+n-1, and     *)
(* tab.L[n + 1][first] the set of expression lists made of n expressions.  *)
(***************************************************************************)
ExprsOf(tab, n, first) ==
    IF n < 1 \/ first > Len(tab.E[n]) THEN {} ELSE tab.E[n][first]
ExprListsOf(tab, n, first) ==
    IF n < 0 \/ first > Len(tab.L[n + 1]) THEN {} ELSE tab.L[n + 1][first]

\* the places holding exactly n expressions
PlacesOver(tab, n, first, g) ==
    IF n = 0 THEN g.places
    ELSE IF ~g.temps THEN {}
    ELSE UNION { { Temporary(x), Field(Temporary(x), "b") } : x \in ExprsOf(tab, n, first) }

\* the expressions made of exactly n expressions, from those of fewer
Exprs(tab, n, first, g) ==
    LET m == n - 1
        f == first + 1
        On(kind, S) == IF kind \in g.kinds THEN S ELSE {}
    IN
    On("Literal", IF n = 1 THEN { Literal(first, t) : t \in g.lits } ELSE {})
    \cup On("Unit", IF n = 1 THEN { Unit(first) } ELSE {})
    \cup On("Error", IF n = 1 THEN { Error(first) } ELSE {})
    \cup On("Place", { Place(first, p) : p \in PlacesOver(tab, m, f, g) })
    \cup On("Let", { Let(first, <<>>, b) : b \in ExprsOf(tab, m, f) }
            \cup UNION { { Let(first, <<i>>, b) :
                             i \in ExprsOf(tab, k, f), b \in ExprsOf(tab, m - k, f + k) }
                         : k \in 1..m })
    \cup On("Assignment",
            UNION { { Assignment(first, p, v) :
                        p \in PlacesOver(tab, k, f, g), v \in ExprsOf(tab, m - k, f + k) }
                    : k \in 0..m })
    \cup On("MethodCall", { MethodCall(first, a) : a \in ExprListsOf(tab, m, f) })
    \cup On("Call",
            UNION { { Call(first, c, a) :
                        c \in ExprsOf(tab, k, f), a \in ExprListsOf(tab, m - k, f + k) }
                    : k \in 1..m })
    \cup On("If",
            UNION { { If(first, c, t, e) :
                        c \in ExprsOf(tab, kc, f), t \in ExprsOf(tab, kt, f + kc),
                        e \in ExprsOf(tab, m - kc - kt, f + kc + kt) }
                    : kc \in 1..m, kt \in 1..m })
    \cup On("Binary",
            UNION { { Binary(first, l, r) :
                        l \in ExprsOf(tab, k, f), r \in ExprsOf(tab, m - k, f + k) }
                    : k \in 1..m })
    \cup On("Unary", { Unary(first, v) : v \in ExprsOf(tab, m, f) })
    \cup On("Aggregate",
            { Aggregate(first, [i \in DOMAIN a |-> IdentifiedExpression(a[i])]) :
                a \in ExprListsOf(tab, m, f) })
    \cup On("Sequence",
            UNION { { Sequence(first, a, b) :
                        a \in ExprsOf(tab, k, f), b \in ExprsOf(tab, m - k, f + k) }
                    : k \in 1..m })

\* the lists of expressions made of n >= 1 expressions in all, from tab.E[1..n]
ExprLists(tab, n, first) ==
    UNION { { <<x>> \o rest : x \in ExprsOf(tab, k, first),
                             rest \in ExprListsOf(tab, n - k, first + k) }
            : k \in 1..n }

RECURSIVE ExprsRow(_, _, _, _, _), ExprListsRow(_, _, _, _), Tabulate(_, _, _, _)
\* the row of size n of tab.E, for the identities first..last of the root
ExprsRow(tab, n, first, last, g) ==
    IF first > last THEN <<>>
    ELSE << { x : x \in Exprs(tab, n, first, g) } >> \o ExprsRow(tab, n, first + 1, last, g)

\* the row of size n of tab.L
ExprListsRow(tab, n, first, last) ==
    IF first > last THEN <<>>
    ELSE << { x : x \in ExprLists(tab, n, first) } >> \o ExprListsRow(tab, n, first + 1, last)

\* the table of grammar g up to size max, given its rows below n
Tabulate(tab, n, max, g) ==
    IF n > max THEN tab
    ELSE LET withE == [E |-> Append(tab.E, ExprsRow(tab, n, 1, max - n + 1, g)),
                       L |-> tab.L]
         IN Tabulate([E |-> withE.E,
                      L |-> Append(tab.L, ExprListsRow(withE, n, 1, max - n + 1))],
                     n + 1, max, g)

\* the expressions of grammar g made of at most max expressions
ExprsUpTo(max, g) ==
    LET tab == Tabulate([E |-> <<>>, L |-> << [first \in 1..(max + 1) |-> {<<>>}] >>],
                        1, max, g)
    IN UNION { tab.E[n][1] : n \in 1..max }

\* the type of a literal that is still an inference variable
UnresolvedTy == Ty(1, FALSE, <<Ty(2, TRUE, <<>>)>>)

\* every expression kind with sub-expressions, over one variable and its field
FullGrammar ==
    [kinds |-> {"Literal", "Place", "Let", "Assignment", "MethodCall", "Call", "If",
                "Binary", "Unary", "Aggregate", "Sequence"},
     lits  |-> {UnresolvedTy},
     places |-> {Variable("a"), Field(Variable("a"), "b")},
     temps |-> TRUE]

\* conditionals over literals, with one chaining kind between them
CondGrammar ==
    [kinds |-> {"Literal", "If", "Unary"},
     lits  |-> {UnresolvedTy},
     places |-> {},
     temps |-> FALSE]

RECURSIVE Projections(_)
\* the places that project at most n fields out of a variable or an entity
Projections(n) ==
    IF n = 0 THEN {Variable("a"), Variable("t"), Entity("f")}
    ELSE Projections(n - 1)
         \cup { Field(p, name) : p \in Projections(n - 1), name \in {"b", "c"} }

\* every body of at most MaxSize expressions
FullBodies == ExprsUpTo(MaxSize, FullGrammar)
\* every conditional of at most MaxCondSize expressions, nested ones included
CondBodies == { e \in ExprsUpTo(MaxCondSize, CondGrammar) : e.kind = "If" }
\* a unary operator applied to a literal of any type of at most MaxTySize layers
TyBodies == { Unary(1, Literal(2, t)) : t \in UNION { Tys(n, 1) : n \in 1..MaxTySize } }
\* reads of and assignments to any two places of at most MaxProj projections
PlaceBodies ==
    UNION { { Sequence(1, Assignment(2, p, Error(3)), Place(4, q)),
              Let(1, <<Place(2, p)>>, Place(3, q)),
              Call(1, Place(2, p), <<Place(3, q), Unit(4)>>) }
            : p \in Projections(MaxProj), q \in Projections(MaxProj) }

(***************************************************************************)
(* The Analysis and the builder's own interning map.  A Node or a Path is  *)
(* the 0-based index of its entry in analysis.node_datas / path_datas.     *)
(* builder.path_datas is the FxIndexMap<PathData, ()>: its keys in         *)
(* insertion order.  `panicked` records a failed assert_eq!.               *)
(***************************************************************************)
\* NodeData
NodeDataExpression(e) == [kind |-> "Expression", e |-> e]
NodeDataJoin(e) == [kind |-> "Join", e |-> e]
\* the node the build of the body starts from
NodeDataStart == [kind |-> "Start"]

\* PathData
PathDataVariable(v) == [kind |-> "Variable", v |-> v]
PathDataEntity(e) == [kind |-> "Entity", e |-> e]
PathDataTemporary(e) == [kind |-> "Temporary", e |-> e]
PathDataField(owner, name) == [kind |-> "Field", owner |-> owner, name |-> name]
PathDataIndex(owner) == [kind |-> "Index", owner |-> owner]

\* PathData::owner: the path a projection projects out of, as an Option
owner(path_data) ==
    IF path_data.kind \in {"Field", "Index"} THEN <<path_data.owner>> ELSE <<>>

\* PathData::precise: a path is precise iff it has no owner
precise(path_data, path_datas) == owner(path_data) = <<>>

NewAnalysis ==
    [node_datas |-> <<>>, cfg_edges |-> <<>>, path_datas |-> <<>>, owner_paths |-> <<>>,
     accesses |-> <<>>, overwritten |-> <<>>, traverse |-> <<>>, used |-> <<>>]

NewBuilder == [analysis |-> NewAnalysis, path_datas |-> <<>>, panicked |-> FALSE]

\* the unification table as the build finds it, and with every variable inferred
Unify == [complete |-> FALSE]
Inferred == [complete |-> TRUE]

\* UnificationTable::shallow_resolve_data: Ok(BaseData) or Err
shallow_resolve_data(unify, base) ==
    IF base.resolved \/ unify.complete
    THEN [ok |-> TRUE, generics |-> base.generics]
    ELSE [ok |-> FALSE]

(***************************************************************************)
(* AnalysisBuilder's methods.  A method that returns a value gives a       *)
(* record of the builder after the call (b) and the value.                 *)
(***************************************************************************)
push_node(b, data) ==
    [b |-> [b EXCEPT !.analysis.node_datas = Append(@, data)],
     node |-> Len(b.analysis.node_datas)]

push_edge(b, from, to) ==
    [b EXCEPT !.analysis.cfg_edges = Append(@, <<from, to>>)]

\* push_node_edge, the edge left out
push_node_edge_no_edge(b, start_node, data) == push_node(b, data)

push_node_edge(b, start_node, data) ==
    LET n == push_node(b, data)
    IN [b |-> push_edge(n.b, start_node, n.node), node |-> n.node]

\* FxIndexMap::entry(key).index(): the key's position, or the map's length if vacant
EntryIndex(map, key) ==
    IF \E i \in 1..Len(map) : map[i] = key
    THEN (CHOOSE i \in 1..Len(map) : map[i] = key) - 1
    ELSE Len(map)

\* create_path, recording the owner relation on a repeat lookup too
create_path_owner_on_lookup(b, path_data) ==
    LET index == EntryIndex(b.path_datas, path_data)
        path == Len(b.analysis.path_datas)
        pushed == [b EXCEPT !.analysis.path_datas = Append(@, path_data)]
        inserted == [pushed EXCEPT !.path_datas = Append(@, path_data)]
        owned(c, q) == IF owner(path_data) # <<>>
                       THEN [c EXCEPT !.analysis.owner_paths =
                                         Append(@, <<owner(path_data)[1], q>>)]
                       ELSE c
    IN IF b.panicked THEN [b |-> b, path |-> 0]
       ELSE IF index < Len(b.path_datas) THEN [b |-> owned(b, index), path |-> index]
       ELSE IF index # path THEN [b |-> [pushed EXCEPT !.panicked = TRUE], path |-> path]
       ELSE [b |-> owned(inserted, path), path |-> path]

create_path(b, path_data) ==
    LET index == EntryIndex(b.path_datas, path_data)
        path == Len(b.analysis.path_datas)
        pushed == [b EXCEPT !.analysis.path_datas = Append(@, path_data)]
        inserted == [pushed EXCEPT !.path_datas = Append(@, path_data)]
        owned == IF owner(path_data) # <<>>
                 THEN [inserted EXCEPT !.analysis.owner_paths =
                                          Append(@, <<owner(path_data)[1], path>>)]
                 ELSE inserted
    IN IF b.panicked THEN [b |-> b, path |-> 0]
       ELSE IF index < Len(b.path_datas) THEN [b |-> b, path |-> index]
       ELSE IF index # path THEN [b |-> [pushed EXCEPT !.panicked = TRUE], path |-> path]
       ELSE [b |-> owned, path |-> path]

RECURSIVE path(_, _)
\* path, the Index path of the owner interned as well
path_interns_index(b, place) ==
    CASE place.kind = "Variable" -> create_path(b, PathDataVariable(place.v))
      [] place.kind = "Entity" -> create_path(b, PathDataEntity(place.e))
      [] place.kind = "Temporary" -> create_path(b, PathDataTemporary(place.expression.id))
      [] place.kind = "Field" ->
            LET o == path(b, place.owner)
                i == create_path(o.b, PathDataIndex(o.path))
            IN create_path(i.b, PathDataField(o.path, place.name))

\* converts a HIR place into an analysis path
path(b, place) ==
    CASE place.kind = "Variable" -> create_path(b, PathDataVariable(place.v))
      [] place.kind = "Entity" -> create_path(b, PathDataEntity(place.e))
      [] place.kind = "Temporary" -> create_path(b, PathDataTemporary(place.expression.id))
      [] place.kind = "Field" ->
            LET o == path(b, place.owner)
            IN create_path(o.b, PathDataField(o.path, place.name))

access(b, perm, p, node) ==
    IF b.panicked THEN b
    ELSE [b EXCEPT !.analysis.accesses = Append(@, <<perm, p, node>>)]

\* generate_assignment_facts, the Traverse fact naming the path written and not its owner
generate_assignment_facts_traverses_target(b, p, node) ==
    LET path_data == b.analysis.path_datas[p + 1]
        written == IF precise(path_data, b.analysis.path_datas)
                   THEN [b EXCEPT !.analysis.overwritten = Append(@, <<p, node>>)]
                   ELSE b
    IN IF b.panicked THEN b
       ELSE IF owner(path_data) # <<>>
       THEN [written EXCEPT !.analysis.traverse = Append(@, <<p, node>>)]
       ELSE written

generate_assignment_facts(b, p, node) ==
    LET path_data == b.analysis.path_datas[p + 1]
        written == IF precise(path_data, b.analysis.path_datas)
                   THEN [b EXCEPT !.analysis.overwritten = Append(@, <<p, node>>)]
                   ELSE b
    IN IF b.panicked THEN b
       ELSE IF owner(path_data) # <<>>
       THEN [written EXCEPT !.analysis.traverse = Append(@, <<owner(path_data)[1], node>>)]
       ELSE written

RECURSIVE use_ty(_, _, _, _), use_generics(_, _, _, _)
\* use_ty, going into the generics of a base that did not resolve
use_ty_ignores_err(b, unify, node, ty) ==
    LET used == [b EXCEPT !.analysis.used = Append(@, <<ty.perm, node>>)]
    IN use_generics(used, unify, node, ty.base.generics)

\* use_ty, failing the build on a base that did not resolve
use_ty_err_is_fatal(b, unify, node, ty) ==
    LET used == [b EXCEPT !.analysis.used = Append(@, <<ty.perm, node>>)]
        data == shallow_resolve_data(unify, ty.base)
    IN IF data.ok THEN use_generics(used, unify, node, data.generics)
       ELSE [used EXCEPT !.panicked = TRUE]

use_ty(b, unify, node, ty) ==
    LET used == [b EXCEPT !.analysis.used = Append(@, <<ty.perm, node>>)]
        data == shallow_resolve_data(unify, ty.base)
    IN IF data.ok THEN use_generics(used, unify, node, data.generics) ELSE used

\* the loop of use_ty over the generics of a resolved base
use_generics(b, unify, node, generics) ==
    IF generics = <<>> THEN b
    ELSE use_generics(use_ty(b, unify, node, Head(generics)), unify, node, Tail(generics))

use_result_of(b, unify, node, expression) == use_ty(b, unify, node, expression.ty)

RECURSIVE use_results_of(_, _, _, _)
\* the loops `for argument in arguments.iter(..) { use_result_of(self_node, argument) }`
use_results_of(b, unify, node, expressions) ==
    IF expressions = <<>> THEN b
    ELSE use_results_of(use_result_of(b, unify, node, Head(expressions)),
                        unify, node, Tail(expressions))

(***************************************************************************)
(* The arms of <hir::Expression as IntoNode>::to_cfg_node, from the point  *)
(* where the sub-expressions have been built: `prev` is the node the last  *)
(* of them returned.  Each gives the builder and the arm's self_node.      *)
(***************************************************************************)
\* LetArm, the bind recorded as an assignment to the bound variable
LetArm_assigns_variable(b, unify, self, initializer_node) ==
    LET n == push_node_edge(b, initializer_node, NodeDataExpression(self.id))
        used == IF self.initializer # <<>>
                THEN use_result_of(n.b, unify, n.node, self.initializer[1])
                ELSE n.b
        p == create_path(used, PathDataVariable(self.variable))
    IN [b |-> generate_assignment_facts(p.b, p.path, n.node), node |-> n.node]

LetArm(b, unify, self, initializer_node) ==
    LET n == push_node_edge(b, initializer_node, NodeDataExpression(self.id))
    IN [b |-> IF self.initializer # <<>>
              THEN use_result_of(n.b, unify, n.node, self.initializer[1])
              ELSE n.b,
        node |-> n.node]

\* PlaceArm, the access recorded at the node of the place's base
PlaceArm_access_at_place_node(b, unify, self, place_node) ==
    LET n == push_node_edge(b, place_node, NodeDataExpression(self.id))
        perm == self.perm
        p == path(n.b, self.place)
    IN [b |-> access(p.b, perm, p.path, place_node), node |-> n.node]

PlaceArm(b, unify, self, place_node) ==
    LET n == push_node_edge(b, place_node, NodeDataExpression(self.id))
        perm == self.perm
        p == path(n.b, self.place)
    IN [b |-> access(p.b, perm, p.path, n.node), node |-> n.node]

AssignmentArm(b, unify, self, value_node) ==
    LET n == push_node_edge(b, value_node, NodeDataExpression(self.id))
        p == path(n.b, self.place)
    IN [b |-> generate_assignment_facts(p.b, p.path, n.node), node |-> n.node]

MethodCallArm(b, unify, self, arguments_node) ==
    LET n == push_node_edge(b, arguments_node, NodeDataExpression(self.id))
    IN [b |-> use_results_of(n.b, unify, n.node, self.arguments), node |-> n.node]

CallArm(b, unify, self, arguments_node) ==
    LET n == push_node_edge(b, arguments_node, NodeDataExpression(self.id))
    IN [b |-> use_results_of(n.b, unify, n.node, self.arguments), node |-> n.node]

\* the conditional up to its test: the self_node and the use of the condition
IfArm(b, unify, self, condition_node) ==
    LET n == push_node_edge(b, condition_node, NodeDataExpression(self.id))
    IN [b |-> use_result_of(n.b, unify, n.node, self.condition), node |-> n.node]

\* IfJoin, both edges into the join drawn from the false arm
IfJoin_false_arm_twice(b, unify, self, if_true_node, if_false_node) ==
    LET join == push_node(b, NodeDataJoin(self.id))
    IN [b |-> push_edge(push_edge(join.b, if_false_node, join.node),
                        if_false_node, join.node),
        node |-> join.node]

\* the conditional after both arms: the join node and its two edges
IfJoin(b, unify, self, if_true_node, if_false_node) ==
    LET join == push_node(b, NodeDataJoin(self.id))
    IN [b |-> push_edge(push_edge(join.b, if_true_node, join.node),
                        if_false_node, join.node),
        node |-> join.node]

BinaryArm(b, unify, self, right_node) ==
    LET n == push_node_edge(b, right_node, NodeDataExpression(self.id))
    IN [b |-> use_result_of(use_result_of(n.b, unify, n.node, self.left),
                            unify, n.node, self.right),
        node |-> n.node]

UnaryArm(b, unify, self, value_node) ==
    LET n == push_node_edge(b, value_node, NodeDataExpression(self.id))
    IN [b |-> use_result_of(n.b, unify, n.node, self.value), node |-> n.node]

\* Error, Unit and Literal
LeafArm(b, unify, self, start_node) ==
    push_node_edge(b, start_node, NodeDataExpression(self.id))

AggregateArm(b, unify, self, field_node) ==
    LET n == push_node_edge(b, field_node, NodeDataExpression(self.id))
    IN [b |-> use_results_of(n.b, unify, n.node,
                             [i \in DOMAIN self.fields |-> self.fields[i].expression]),
        node |-> n.node]

SequenceArm(b, unify, self, second_node) ==
    push_node_edge(b, second_node, NodeDataExpression(self.id))

(***************************************************************************)
(* The calls and continuations on the stack.                               *)
(***************************************************************************)
\* builder.node(ret, n) for an expression n
NodeTask(n) == [op |-> "node", n |-> n]
\* builder.node(ret, place) for a place
PlaceTask(place) == [op |-> "place", place |-> place]
\* the rest of e's arm, once its sub-expressions are built
SelfTask(e) == [op |-> "self", e |-> e]
\* builder.node(self_node, if_false), once the true arm is built
IfFalseTask(e, self_node) == [op |-> "if_false", e |-> e, self_node |-> self_node]
\* the join, once the false arm is built
IfJoinTask(e, if_true_node) == [op |-> "if_join", e |-> e, if_true_node |-> if_true_node]
\* to_cfg_node(e, start_node) returns ret
ReturnTask(e, start_node) == [op |-> "return", e |-> e, start_node |-> start_node]

\* <Option<N> as IntoNode>::to_cfg_node: nothing to build for None
OptionTasks(option) == IF option = <<>> THEN <<>> ELSE <<NodeTask(option[1])>>
\* <hir::List<N> as IntoNode>::to_cfg_node: the elements in order
ListTasks(list) == [i \in DOMAIN list |-> NodeTask(list[i])]
\* <hir::IdentifiedExpression as IntoNode>::to_cfg_node, over a list of fields
FieldTasks(fields) == [i \in DOMAIN fields |-> NodeTask(fields[i].expression)]

Top == Head(stack)
Running == stack # <<>> /\ ~builder.panicked
\* the next step is the call of to_cfg_node on an expression of one of `kinds`
Calls(kinds) == Running /\ Top.op = "node" /\ Top.n.kind \in kinds
\* the next step is the rest of the arm of an expression of kind `kind`
Continues(op, kind) == Running /\ Top.op = op /\ Top.e.kind = kind

\* the call is replaced by the calls it makes
Push(tasks) ==
    /\ stack' = tasks \o <<ReturnTask(Top.n, ret)>> \o Tail(stack)
    /\ UNCHANGED <<fn_body, builder, inferred, ret, returned>>

\* the arm's effect r on the builder (ri: on the builder with every type inferred)
Finish(r, ri, tasks) ==
    /\ builder' = r.b
    /\ inferred' = ri.b
    /\ ret' = r.node
    /\ stack' = tasks \o Tail(stack)
    /\ UNCHANGED <<fn_body, returned>>

(***************************************************************************)
(* The steps of the build.                                                 *)
(***************************************************************************)
Let_start ==
    /\ Calls({"Let"})
    /\ Push(OptionTasks(Top.n.initializer) \o <<SelfTask(Top.n), NodeTask(Top.n.body)>>)

Let_self ==
    /\ Continues("self", "Let")
    /\ Finish(LetArm(builder, Unify, Top.e, ret), LetArm(inferred, Inferred, Top.e, ret), <<>>)

Place_start ==
    /\ Calls({"Place"})
    /\ Push(<<PlaceTask(Top.n.place), SelfTask(Top.n)>>)

Place_self ==
    /\ Continues("self", "Place")
    /\ Finish(PlaceArm(builder, Unify, Top.e, ret),
              PlaceArm(inferred, Inferred, Top.e, ret), <<>>)

Assignment_start ==
    /\ Calls({"Assignment"})
    /\ Push(<<PlaceTask(Top.n.place), NodeTask(Top.n.value), SelfTask(Top.n)>>)

Assignment_self ==
    /\ Continues("self", "Assignment")
    /\ Finish(AssignmentArm(builder, Unify, Top.e, ret),
              AssignmentArm(inferred, Inferred, Top.e, ret), <<>>)

MethodCall_start ==
    /\ Calls({"MethodCall"})
    /\ Push(ListTasks(Top.n.arguments) \o <<SelfTask(Top.n)>>)

MethodCall_self ==
    /\ Continues("self", "MethodCall")
    /\ Finish(MethodCallArm(builder, Unify, Top.e, ret),
              MethodCallArm(inferred, Inferred, Top.e, ret), <<>>)

\* Call_start, the arguments built before the callee
Call_start_arguments_first ==
    /\ Calls({"Call"})
    /\ Push(ListTasks(Top.n.arguments) \o <<NodeTask(Top.n.function)>>
            \o <<SelfTask(Top.n)>>)

Call_start ==
    /\ Calls({"Call"})
    /\ Push(<<NodeTask(Top.n.function)>> \o ListTasks(Top.n.arguments)
            \o <<SelfTask(Top.n)>>)

Call_self ==
    /\ Continues("self", "Call")
    /\ Finish(CallArm(builder, Unify, Top.e, ret),
              CallArm(inferred, Inferred, Top.e, ret), <<>>)

If_start ==
    /\ Calls({"If"})
    /\ Push(<<NodeTask(Top.n.condition), SelfTask(Top.n)>>)

\* the test, then the true arm from the self_node
If_self ==
    /\ Continues("self", "If")
    /\ LET r == IfArm(builder, Unify, Top.e, ret)
       IN Finish(r, IfArm(inferred, Inferred, Top.e, ret),
                 <<NodeTask(Top.e.if_true), IfFalseTask(Top.e, r.node)>>)

\* the true arm has returned ret: the false arm starts from the self_node again
If_false ==
    /\ Continues("if_false", "If")
    /\ ret' = Top.self_node
    /\ stack' = <<NodeTask(Top.e.if_false), IfJoinTask(Top.e, ret)>> \o Tail(stack)
    /\ UNCHANGED <<fn_body, builder, inferred, returned>>

\* the false arm has returned ret
If_join ==
    /\ Continues("if_join", "If")
    /\ Finish(IfJoin(builder, Unify, Top.e, Top.if_true_node, ret),
              IfJoin(inferred, Inferred, Top.e, Top.if_true_node, ret), <<>>)

Binary_start ==
    /\ Calls({"Binary"})
    /\ Push(<<NodeTask(Top.n.left), NodeTask(Top.n.right), SelfTask(Top.n)>>)

Binary_self ==
    /\ Continues("self", "Binary")
    /\ Finish(BinaryArm(builder, Unify, Top.e, ret),
              BinaryArm(inferred, Inferred, Top.e, ret), <<>>)

Unary_start ==
    /\ Calls({"Unary"})
    /\ Push(<<NodeTask(Top.n.value), SelfTask(Top.n)>>)

Unary_self ==
    /\ Continues("self", "Unary")
    /\ Finish(UnaryArm(builder, Unify, Top.e, ret),
              UnaryArm(inferred, Inferred, Top.e, ret), <<>>)

\* Error, Unit and Literal have no sub-expression: the arm is one step
Leaf ==
    /\ Calls({"Error", "Unit", "Literal"})
    /\ Finish(LeafArm(builder, Unify, Top.n, ret), LeafArm(inferred, Inferred, Top.n, ret),
              <<ReturnTask(Top.n, ret)>>)

Aggregate_start ==
    /\ Calls({"Aggregate"})
    /\ Push(FieldTasks(Top.n.fields) \o <<SelfTask(Top.n)>>)

Aggregate_self ==
    /\ Continues("self", "Aggregate")
    /\ Finish(AggregateArm(builder, Unify, Top.e, ret),
              AggregateArm(inferred, Inferred, Top.e, ret), <<>>)

Sequence_start ==
    /\ Calls({"Sequence"})
    /\ Push(<<NodeTask(Top.n.first), NodeTask(Top.n.second), SelfTask(Top.n)>>)

Sequence_self ==
    /\ Continues("self", "Sequence")
    /\ Finish(SequenceArm(builder, Unify, Top.e, ret),
              SequenceArm(inferred, Inferred, Top.e, ret), <<>>)

\* <hir::Place as IntoNode>::to_cfg_node
Place_to_cfg_node ==
    /\ Running /\ Top.op = "place"
    /\ stack' = (CASE Top.place.kind = "Variable" -> <<>>
                   [] Top.place.kind = "Entity" -> <<>>
                   [] Top.place.kind = "Temporary" -> <<NodeTask(Top.place.expression)>>
                   [] Top.place.kind = "Field" -> <<PlaceTask(Top.place.owner)>>)
                \o Tail(stack)
    /\ UNCHANGED <<fn_body, builder, inferred, ret, returned>>

\* to_cfg_node hands its node back to the caller
Return ==
    /\ Running /\ Top.op = "return"
    /\ returned' = returned \cup
           {[e |-> Top.e.id, start_node |-> Top.start_node, node |-> ret]}
    /\ stack' = Tail(stack)
    /\ UNCHANGED <<fn_body, builder, inferred, ret>>

\* a builder for the body, with the node the build starts from
Init ==
    /\ \/ fn_body \in FullBodies
       \/ fn_body \in CondBodies
       \/ fn_body \in TyBodies
       \/ fn_body \in PlaceBodies
    /\ builder = push_node(NewBuilder, NodeDataStart).b
    /\ inferred = push_node(NewBuilder, NodeDataStart).b
    /\ stack = <<NodeTask(fn_body)>>
    /\ ret = 0
    /\ returned = {}

Next ==
    \/ Let_start \/ Let_self
    \/ Place_start \/ Place_self
    \/ Assignment_start \/ Assignment_self
    \/ MethodCall_start \/ MethodCall_self
    \/ Call_start \/ Call_self
    \/ If_start \/ If_self \/ If_false \/ If_join
    \/ Binary_start \/ Binary_self
    \/ Unary_start \/ Unary_self
    \/ Leaf
    \/ Aggregate_start \/ Aggregate_self
    \/ Sequence_start \/ Sequence_self
    \/ Place_to_cfg_node
    \/ Return

Spec == Init /\ [][Next]_vars

\* the build is over
Done == stack = <<>>

(***************************************************************************)
(* What the properties below speak of: the expressions of the body, the    *)
(* nodes and paths the analysis holds for them, and the facts at a node.   *)
(***************************************************************************)
\* the analysis being built
A == builder.analysis

RECURSIVE PlaceOperands(_)
\* the expressions a place evaluates: the temporary at its root, if any
PlaceOperands(place) ==
    CASE place.kind = "Temporary" -> <<place.expression>>
      [] place.kind = "Field" -> PlaceOperands(place.owner)
      [] OTHER -> <<>>

\* the direct sub-expressions of e, in the order of the source text
Operands(e) ==
    CASE e.kind = "Let" -> e.initializer \o <<e.body>>
      [] e.kind = "Place" -> PlaceOperands(e.place)
      [] e.kind = "Assignment" -> PlaceOperands(e.place) \o <<e.value>>
      [] e.kind = "MethodCall" -> e.arguments
      [] e.kind = "Call" -> <<e.function>> \o e.arguments
      [] e.kind = "If" -> <<e.condition, e.if_true, e.if_false>>
      [] e.kind = "Binary" -> <<e.left, e.right>>
      [] e.kind = "Unary" -> <<e.value>>
      [] e.kind = "Aggregate" -> [i \in DOMAIN e.fields |-> e.fields[i].expression]
      [] e.kind = "Sequence" -> <<e.first, e.second>>
      [] OTHER -> <<>>

RECURSIVE SubExpressions(_)
\* e and every expression inside it
SubExpressions(e) ==
    {e} \cup UNION { SubExpressions(Operands(e)[i]) : i \in DOMAIN Operands(e) }

\* the expressions of the body
Expressions == SubExpressions(fn_body)

\* the elements of a sequence, and how often x occurs in it
Range(seq) == { seq[i] : i \in DOMAIN seq }
Count(seq, x) == Cardinality({ i \in DOMAIN seq : seq[i] = x })
\* the facts of a relation whose last component is the node n
AtNode(seq, n) == { i \in DOMAIN seq : seq[i][Len(seq[i])] = n }
IsPrefix(s, t) == Len(s) <= Len(t) /\ SubSeq(t, 1, Len(s)) = s

\* e's arm has pushed its self_node
Executed(e) == NodeDataExpression(e.id) \in Range(A.node_datas)
\* the self_node of e
NodeOf(e) == (CHOOSE i \in DOMAIN A.node_datas : A.node_datas[i] = NodeDataExpression(e.id)) - 1
\* to_cfg_node has returned for e, and the record of its return
HasReturned(e) == \E r \in returned : r.e = e.id
ReturnOf(e) == CHOOSE r \in returned : r.e = e.id

RECURSIVE PathOf(_)
\* the identity under which the analysis holds the place (its length if it does not)
PathOf(place) ==
    EntryIndex(A.path_datas,
        CASE place.kind = "Variable" -> PathDataVariable(place.v)
          [] place.kind = "Entity" -> PathDataEntity(place.e)
          [] place.kind = "Temporary" -> PathDataTemporary(place.expression.id)
          [] place.kind = "Field" -> PathDataField(PathOf(place.owner), place.name))

\* the edges into and out of a node, as positions in cfg_edges
EdgesInto(n) == { i \in DOMAIN A.cfg_edges : A.cfg_edges[i][2] = n }
EdgesOutOf(n) == { i \in DOMAIN A.cfg_edges : A.cfg_edges[i][1] = n }

(***************************************************************************)
(* C1.  Precision law for assignments.  An Overwritten(P, n) fact exists   *)
(* iff P has no owner and n is the self-node of an assignment to P; an     *)
(* assignment to a field projection emits exactly one Traverse fact, which *)
(* names the immediate owner of the target at the assignment's self-node,  *)
(* and no Overwritten fact; an assignment to an unowned path emits exactly *)
(* one Overwritten fact and no Traverse fact.                              *)
(***************************************************************************)
Assignments == { e \in Expressions : e.kind = "Assignment" /\ Executed(e) }

C1_PrecisionLaw ==
    /\ \A e \in Assignments :
          LET n == NodeOf(e) IN
          IF e.place.kind = "Field"
          THEN /\ AtNode(A.overwritten, n) = {}
               /\ Cardinality(AtNode(A.traverse, n)) = 1
               /\ Count(A.traverse, <<PathOf(e.place.owner), n>>) = 1
               /\ A.path_datas[PathOf(e.place) + 1].owner = PathOf(e.place.owner)
          ELSE /\ AtNode(A.traverse, n) = {}
               /\ Cardinality(AtNode(A.overwritten, n)) = 1
               /\ Count(A.overwritten, <<PathOf(e.place), n>>) = 1
    /\ \A i \in DOMAIN A.overwritten :
          /\ A.path_datas[A.overwritten[i][1] + 1].kind \in {"Variable", "Entity", "Temporary"}
          /\ \E e \in Assignments : A.overwritten[i] = <<PathOf(e.place), NodeOf(e)>>
    /\ \A i \in DOMAIN A.traverse :
          \E e \in Assignments : A.traverse[i][2] = NodeOf(e)

\* an assignment to a.b.c has been built: one Traverse fact, naming a.b
C1_Witness ==
    /\ Done
    /\ Assignments # {}
    /\ A.overwritten = <<>>
    /\ Len(A.traverse) = 1
    /\ A.path_datas[A.traverse[1][1] + 1].kind = "Field"

(***************************************************************************)
(* C2.  Path interning is canonical.  Whenever the build is about to       *)
(* convert a place, and when it is over (so: for every path table a build  *)
(* goes through), and for every descriptor create_path may be given next:  *)
(* no two identities share a descriptor; an interned descriptor            *)
(* gets the identity it already has and the builder is left as it is (no   *)
(* path, no owner pair added); a new descriptor gets the next identity in  *)
(* sequence and every earlier identity keeps its descriptor; a second call *)
(* with the same descriptor returns the same identity and adds nothing.    *)
(***************************************************************************)
\* the descriptors create_path can be given in the current state
Descriptors ==
    { PathDataVariable(v) : v \in {"a", "t"} }
    \cup { PathDataEntity("f") }
    \cup { PathDataTemporary(e.id) : e \in Expressions }
    \cup { PathDataField(o, name) : o \in 0..(Len(A.path_datas) - 1), name \in {"b", "c"} }

\* the next step converts a place to a path
Converting == Running /\ Top.op = "self" /\ Top.e.kind \in {"Place", "Assignment"}

C2_InterningCanonical ==
    (Converting \/ Done) =>
    /\ \A i, j \in DOMAIN A.path_datas : A.path_datas[i] = A.path_datas[j] => i = j
    /\ \A d \in Descriptors :
          LET r == create_path(builder, d)
              again == create_path(r.b, d)
          IN /\ ~r.b.panicked
             /\ r.b.analysis.path_datas[r.path + 1] = d
             /\ IsPrefix(A.path_datas, r.b.analysis.path_datas)
             /\ IF d \in Range(A.path_datas)
                THEN r.b = builder
                ELSE /\ r.path = Len(A.path_datas)
                     /\ Len(r.b.analysis.path_datas) = Len(A.path_datas) + 1
             /\ again.path = r.path
             /\ again.b = r.b

\* a.b.c has been read twice: both reads get the one identity, and the
\* table holds three paths and two owner pairs
C2_Witness ==
    /\ Done
    /\ Len(A.accesses) = 2
    /\ A.accesses[1][2] = A.accesses[2][2]
    /\ A.path_datas[A.accesses[1][2] + 1].kind = "Field"
    /\ Len(A.path_datas) = 3
    /\ Len(A.owner_paths) = 2

(***************************************************************************)
(* C3.  Join fan-in.  The node to_cfg_node returns for a conditional is    *)
(* its Join node; that node has exactly two incoming edges, one from the   *)
(* node the true branch returned and one from the node the false branch    *)
(* returned, and these are two different nodes; also when a branch is      *)
(* itself a conditional (its returned node is then the inner join).        *)
(***************************************************************************)
C3_JoinFanIn ==
    \A e \in Expressions :
        (e.kind = "If" /\ HasReturned(e)) =>
            LET join == ReturnOf(e).node
                t == ReturnOf(e.if_true).node
                f == ReturnOf(e.if_false).node
            IN /\ A.node_datas[join + 1] = NodeDataJoin(e.id)
               /\ Cardinality(EdgesInto(join)) = 2
               /\ { A.cfg_edges[i] : i \in EdgesInto(join) } = { <<t, join>>, <<f, join>> }
               /\ t # f

\* a conditional whose two branches are conditionals has been built
C3_Witness ==
    /\ Done
    /\ fn_body.kind = "If"
    /\ fn_body.if_true.kind = "If"
    /\ fn_body.if_false.kind = "If"
    /\ A.node_datas[ReturnOf(fn_body.if_true).node + 1].kind = "Join"

(***************************************************************************)
(* C4.  Chain well-formedness.  to_cfg_node returns once for an            *)
(* expression, with one node, and at its return that node is reachable     *)
(* from the predecessor it was given along the recorded edges.  A node has *)
(* at most one outgoing edge, except the self-node of a conditional (its   *)
(* test), which has at most two, and exactly two once the conditional has  *)
(* returned.                                                               *)
(***************************************************************************)
RECURSIVE Reaches(_, _)
\* there is a path of at least one edge from node `from` to node `to`
Reaches(from, to) ==
    \E i \in EdgesOutOf(from) :
        A.cfg_edges[i][2] = to \/ Reaches(A.cfg_edges[i][2], to)

\* the conditionals whose test has been built
Tests == { e \in Expressions : e.kind = "If" /\ Executed(e) }

C4_ChainWellFormed ==
    /\ \A r \in returned :
          /\ \A q \in returned : q.e = r.e => q = r
          /\ r.node \in 0..(Len(A.node_datas) - 1)
    /\ (Running /\ Top.op = "return") =>
          /\ ~HasReturned(Top.e)
          /\ Reaches(Top.start_node, ret)
    /\ \A n \in 0..(Len(A.node_datas) - 1) :
          IF \E e \in Tests : NodeOf(e) = n
          THEN Cardinality(EdgesOutOf(n)) <= 2
          ELSE Cardinality(EdgesOutOf(n)) <= 1
    /\ \A e \in Tests : HasReturned(e) => Cardinality(EdgesOutOf(NodeOf(e))) = 2

\* a conditional inside a conditional has been built: two tests, each with two ways out
C4_Witness ==
    /\ Done
    /\ Cardinality(Tests) >= 2
    /\ \A e \in Tests : Cardinality(EdgesOutOf(NodeOf(e))) = 2
    /\ Cardinality(returned) >= 8

(***************************************************************************)
(* C5 (as amended).  Type-use layering.  use_ty at node N emits one Used   *)
(* fact for every permission layer of the type that does not lie beneath   *)
(* an unresolved layer, each tagged N, and no other fact: for a fully      *)
(* resolvable type that is one fact per layer of the type, which is D + 1  *)
(* facts for nesting depth D when no layer has more than one generic       *)
(* argument, and more when one has.                                        *)
(***************************************************************************)
RECURSIVE Depth(_), DepthOfAll(_), Layers(_), FullyResolvable(_), Reached(_)
\* the generic nesting depth of a type
Depth(ty) == IF ty.base.generics = <<>> THEN 0 ELSE 1 + DepthOfAll(ty.base.generics)
DepthOfAll(tys) ==
    IF tys = <<>> THEN 0
    ELSE LET d == Depth(Head(tys))
             rest == DepthOfAll(Tail(tys))
         IN IF d > rest THEN d ELSE rest
\* the permissions of all the layers of a type
Layers(ty) == {ty.perm} \cup UNION { Layers(g) : g \in Range(ty.base.generics) }
FullyResolvable(ty) ==
    ty.base.resolved /\ \A g \in Range(ty.base.generics) : FullyResolvable(g)
\* the permissions of the layers that do not lie beneath an unresolved layer
Reached(ty) ==
    {ty.perm} \cup (IF ty.base.resolved
                    THEN UNION { Reached(g) : g \in Range(ty.base.generics) }
                    ELSE {})
\* no layer of the type has more than one generic argument
IsChain(ty) == Cardinality(Layers(ty)) = Depth(ty) + 1

\* the body is a unary operator on a literal and has been built:
\* use_ty has run once, on the literal's type, at the operator's node
TypeUsed == Done /\ fn_body.kind = "Unary" /\ fn_body.value.kind = "Literal"

C5_TypeUseLayering ==
    TypeUsed =>
        LET ty == fn_body.value.ty
            N == NodeOf(fn_body)
        IN /\ \A i \in DOMAIN A.used : A.used[i][2] = N
           /\ { A.used[i][1] : i \in DOMAIN A.used } = Reached(ty)
           /\ Len(A.used) = Cardinality(Reached(ty))
           /\ FullyResolvable(ty) => Len(A.used) = Cardinality(Layers(ty))
           /\ (FullyResolvable(ty) /\ IsChain(ty)) => Len(A.used) = Depth(ty) + 1

\* Outer<Inner<T>>, fully resolvable: three Used facts at the one node
C5_Witness ==
    /\ TypeUsed
    /\ FullyResolvable(fn_body.value.ty)
    /\ Depth(fn_body.value.ty) = 2
    /\ IsChain(fn_body.value.ty)
    /\ Len(A.used) = 3

\* C5 as it was stated: a fully resolvable type of nesting depth D gives exactly
\* D + 1 Used facts, all at the node, and nothing beneath an unresolved layer
C5_AsStated ==
    TypeUsed =>
        LET ty == fn_body.value.ty
            N == NodeOf(fn_body)
        IN /\ \A i \in DOMAIN A.used : A.used[i][2] = N
           /\ { A.used[i][1] : i \in DOMAIN A.used } \subseteq Reached(ty)
           /\ FullyResolvable(ty) => Len(A.used) = Depth(ty) + 1

(***************************************************************************)
(* C6.  Unresolved types are silent and local.  In every state of a build  *)
(* the builder differs from the builder of the same build with every type  *)
(* inferred in nothing but the Used relation (nodes, edges, paths, owner   *)
(* relation, interning map, Access, Overwritten and Traverse are equal),   *)
(* and no assertion has failed; the Used facts are those of the inferred   *)
(* build with the facts beneath the unresolved layers left out, so the     *)
(* unresolved layer's own fact and those of its later siblings are there;  *)
(* and when the build is over every expression of the body has its node.   *)
(***************************************************************************)
RECURSIVE IsSubsequence(_, _)
IsSubsequence(s, t) ==
    IF s = <<>> THEN TRUE
    ELSE IF t = <<>> THEN FALSE
    ELSE IF Head(s) = Head(t) THEN IsSubsequence(Tail(s), Tail(t))
    ELSE IsSubsequence(s, Tail(t))

\* a builder with its Used relation blanked
WithoutUsed(b) == [b EXCEPT !.analysis.used = <<>>]

C6_UnresolvedSilent ==
    /\ ~builder.panicked
    /\ WithoutUsed(builder) = WithoutUsed(inferred)
    /\ IsSubsequence(A.used, inferred.analysis.used)
    /\ Done => \A e \in Expressions : Executed(e)
    /\ TypeUsed => { A.used[i][1] : i \in DOMAIN A.used } = Reached(fn_body.value.ty)

\* Outer<?X, U> with ?X unresolved: facts for Outer, ?X and U, none for what is beneath ?X
C6_Witness ==
    /\ TypeUsed
    /\ LET ty == fn_body.value.ty
       IN /\ ty.base.resolved
          /\ Len(ty.base.generics) = 2
          /\ ~ty.base.generics[1].base.resolved
          /\ ty.base.generics[1].base.generics # <<>>
    /\ Len(A.used) = 3
    /\ Len(inferred.analysis.used) = 4

(***************************************************************************)
(* C7 (as amended).  A bind records no assignment.  The Let arm emits no   *)
(* Overwritten and no Traverse fact at its node; building `let t = a.b; t` *)
(* (and any `let x = p; q` over places p and q) leaves both relations      *)
(* empty and emits two Access facts, the read of p at the initializer's    *)
(* node and the read of q at the body's node, and one Used fact, for the   *)
(* initializer's type at the node of the let.                              *)
(***************************************************************************)
\* let t = a.b; t
LetExample ==
    Let(1, <<Place(2, Field(Variable("a"), "b"))>>, Place(3, Variable("t")))

\* the body is a let of a place read whose body is a place read, and has been built
LetOfPlacesBuilt ==
    /\ Done
    /\ fn_body.kind = "Let"
    /\ fn_body.initializer # <<>>
    /\ fn_body.initializer[1].kind = "Place"
    /\ PlaceOperands(fn_body.initializer[1].place) = <<>>
    /\ fn_body.body.kind = "Place"
    /\ PlaceOperands(fn_body.body.place) = <<>>

C7_BindRecordsNoAssignment ==
    /\ \A e \in Expressions :
          (e.kind = "Let" /\ Executed(e)) =>
              /\ AtNode(A.overwritten, NodeOf(e)) = {}
              /\ AtNode(A.traverse, NodeOf(e)) = {}
    /\ LetOfPlacesBuilt =>
          LET init == fn_body.initializer[1]
              body == fn_body.body
          IN /\ A.overwritten = <<>>
             /\ A.traverse = <<>>
             /\ A.accesses = << <<init.perm, PathOf(init.place), NodeOf(init)>>,
                                <<body.perm, PathOf(body.place), NodeOf(body)>> >>
             /\ A.used = << <<init.ty.perm, NodeOf(fn_body)>> >>

\* `let t = a.b; t` has been built
C7_Witness ==
    /\ LetOfPlacesBuilt
    /\ fn_body = LetExample
    /\ Len(A.accesses) = 2
    /\ A.path_datas = <<PathDataVariable("a"), PathDataField(0, "b"), PathDataVariable("t")>>

\* C7 as it was stated: `let t = a.b; t` gives one Overwritten fact, for the
\* variable t, one Traverse(a, node of the let), and the Access fact of `a.b`
C7_AsStated ==
    (Done /\ fn_body = LetExample) =>
        /\ Len(A.overwritten) = 1
        /\ A.overwritten[1][1] = PathOf(Variable("t"))
        /\ A.traverse = << <<PathOf(Variable("a")), NodeOf(fn_body)>> >>
        /\ \E i \in DOMAIN A.accesses :
              A.accesses[i][2] = PathOf(Field(Variable("a"), "b"))

(***************************************************************************)
(* C8.  Place reads produce exactly one Access fact each.  For every place *)
(* read E that has been built there is exactly one Access fact at E's      *)
(* self-node, (access_permissions[E], the path of the whole place - the    *)
(* Field path for a projection -, self-node), and no Overwritten or        *)
(* Traverse fact at that node; the self-node has one incoming edge, from   *)
(* the node the place's base returned (the predecessor, if the base        *)
(* evaluates nothing); and every Access fact is the fact of a place read.  *)
(***************************************************************************)
PlaceReads == { e \in Expressions : e.kind = "Place" /\ Executed(e) }

C8_PlaceReadsAccessOnce ==
    /\ \A e \in PlaceReads :
          LET n == NodeOf(e)
              p == PathOf(e.place)
          IN /\ Cardinality(AtNode(A.accesses, n)) = 1
             /\ Count(A.accesses, <<e.perm, p, n>>) = 1
             /\ p < Len(A.path_datas)
             /\ A.path_datas[p + 1].kind = e.place.kind
             /\ AtNode(A.overwritten, n) = {}
             /\ AtNode(A.traverse, n) = {}
             /\ HasReturned(e) =>
                   LET base == PlaceOperands(e.place)
                       prev == IF base = <<>> THEN ReturnOf(e).start_node
                               ELSE ReturnOf(base[1]).node
                   IN { A.cfg_edges[i] : i \in EdgesInto(n) } = { <<prev, n>> }
    /\ \A i \in DOMAIN A.accesses :
          \E e \in PlaceReads : A.accesses[i][3] = NodeOf(e)
    /\ Len(A.accesses) = Cardinality(PlaceReads)

\* a read of a field of a temporary has been built
C8_Witness ==
    /\ Done
    /\ fn_body.kind = "Place"
    /\ fn_body.place.kind = "Field"
    /\ fn_body.place.owner.kind = "Temporary"
    /\ A.accesses # <<>>
    /\ A.accesses[Len(A.accesses)] = <<fn_body.perm, Len(A.path_datas) - 1, ret>>

(***************************************************************************)
(* C9.  The control-flow graph is acyclic by construction.  Every edge     *)
(* goes from a node to a node of a greater identity; when a call returns,  *)
(* the nodes of its callee come before those of its first argument, those  *)
(* of each argument before those of the next, and all of them before the   *)
(* call's self-node; when a conditional returns, the nodes of its          *)
(* condition, its test, the nodes of its true branch, those of its false   *)
(* branch and its join come in this order; and no step removes or changes  *)
(* a node or an edge.                                                      *)
(***************************************************************************)
\* the nodes (self-nodes and joins) of e and of the expressions inside it
NodesOf(e) ==
    { i - 1 : i \in { j \in DOMAIN A.node_datas :
                        /\ A.node_datas[j].kind # "Start"
                        /\ \E x \in SubExpressions(e) : x.id = A.node_datas[j].e } }
\* every node of S comes before every node of T
Before(S, T) == \A m \in S, n \in T : m < n

C9_Order ==
    /\ \A i \in DOMAIN A.cfg_edges :
          /\ A.cfg_edges[i][1] < A.cfg_edges[i][2]
          /\ A.cfg_edges[i][2] < Len(A.node_datas)
    /\ (Running /\ Top.op = "return" /\ Top.e.kind = "Call") =>
          LET ops == Operands(Top.e)
          IN /\ \A i \in DOMAIN ops : NodesOf(ops[i]) # {}
             /\ \A i, j \in DOMAIN ops : i < j => Before(NodesOf(ops[i]), NodesOf(ops[j]))
             /\ \A i \in DOMAIN ops : Before(NodesOf(ops[i]), {NodeOf(Top.e)})
             /\ ret = NodeOf(Top.e)
    /\ (Running /\ Top.op = "return" /\ Top.e.kind = "If") =>
          LET e == Top.e
          IN /\ NodesOf(e.condition) # {} /\ NodesOf(e.if_true) # {}
             /\ NodesOf(e.if_false) # {}
             /\ Before(NodesOf(e.condition), {NodeOf(e)})
             /\ Before({NodeOf(e)}, NodesOf(e.if_true))
             /\ Before(NodesOf(e.if_true), NodesOf(e.if_false))
             /\ Before(NodesOf(e.if_false), {ret})
             /\ A.node_datas[ret + 1] = NodeDataJoin(e.id)

C9_AppendOnly ==
    /\ IsPrefix(A.node_datas, builder'.analysis.node_datas)
    /\ IsPrefix(A.cfg_edges, builder'.analysis.cfg_edges)

C9_AcyclicByConstruction == [](C9_Order) /\ [][C9_AppendOnly]_vars

\* a call with two arguments has been built and is about to return
C9_Witness ==
    /\ Running /\ Top.op = "return" /\ Top.e.kind = "Call"
    /\ Len(Top.e.arguments) = 2
    /\ Len(A.cfg_edges) = 4

(***************************************************************************)
(* C10.  The owner relation is a forest kept in step with the path table.  *)
(* The interning map and the analysis path list hold the same descriptors  *)
(* in the same order and the assert_eq of create_path has not failed; the  *)
(* owner-path relation holds exactly one pair (owner, p) for every Field   *)
(* path p and nothing else; the owner's identity is smaller than p's; and  *)
(* no Index path is interned.                                              *)
(***************************************************************************)
FieldPaths == { p \in 0..(Len(A.path_datas) - 1) : A.path_datas[p + 1].kind = "Field" }

C10_OwnerForest ==
    /\ builder.path_datas = A.path_datas
    /\ ~builder.panicked
    /\ \A p \in 0..(Len(A.path_datas) - 1) :
          A.path_datas[p + 1].kind \in {"Variable", "Entity", "Temporary", "Field"}
    /\ Len(A.owner_paths) = Cardinality(FieldPaths)
    /\ \A p \in FieldPaths : Count(A.owner_paths, <<A.path_datas[p + 1].owner, p>>) = 1
    /\ \A i \in DOMAIN A.owner_paths :
          /\ A.owner_paths[i][2] \in FieldPaths
          /\ A.owner_paths[i][1] >= 0
          /\ A.owner_paths[i][1] < A.owner_paths[i][2]

\* a.b.c and t.b.c have been read: six paths, four owner pairs
C10_Witness ==
    /\ Done
    /\ Len(A.path_datas) = 6
    /\ Len(A.owner_paths) = 4
    /\ Len(A.accesses) = 2

====
